---------------------------- MODULE Spec2Model ----------------------------
(***************************************************************************)
(* Water_Quality_Visualization.ipynb: a notebook that configures the       *)
(* Sentinel Hub SDK, builds one Process API request carrying the Ulyssys   *)
(* Water Quality Viewer evalscript, calls get_data once and plots the      *)
(* three rasters of the response.                                          *)
(*                                                                         *)
(* Two parts are modelled: the notebook's cells as a state machine (Spec)  *)
(* and the evalscript's functions as operators over JavaScript values,     *)
(* applied to bounded inputs (SpecScript).  JavaScript numbers are exact   *)
(* rationals here (plus NaN and the two infinities): IEEE-754 rounding is  *)
(* not modelled, so equalities of numbers are equalities of the real       *)
(* values the expressions denote.                                          *)
(***************************************************************************)
EXTENDS Integers, Sequences, FiniteSets, TLC

VARIABLES
  pc,                \* the next code cell of the notebook to execute
  config,            \* name `config` of the kernel (<<>> while unbound)
  taihu_lake_bbox,   \* name `taihu_lake_bbox`
  time_interval,     \* name `time_interval`
  resolution,        \* name `resolution`
  overview_map,      \* name `overview_map`
  custom_script,     \* name `custom_script`
  request_UWQV,      \* name `request_UWQV`
  download_data,     \* name `download_data`
  img,               \* name `img`
  chlorophyll_index, \* name `chlorophyll_index`
  sediment_index,    \* name `sediment_index`
  inFlight,          \* the get_data calls that have not returned yet
  sent,              \* the requests handed to get_data, oldest first
  figures,           \* what the plotting calls were handed, oldest first
  disk,              \* the local files written by the run
  exception,         \* the exception that stopped the run ("none" before)
  log,               \* the pipeline steps executed, oldest first
  call,              \* evalscript: the function applied and its arguments
  ret                \* evalscript: what that application returned

nbvars == <<pc, config, taihu_lake_bbox, time_interval, resolution,
            overview_map, custom_script, request_UWQV, download_data, img,
            chlorophyll_index, sediment_index, inFlight, sent, figures,
            disk, exception, log>>
jsvars == <<call, ret>>
vars == <<nbvars, jsvars>>

\* ------------------------------------------------------------------------
\* Bounds of the model
\* ------------------------------------------------------------------------

\* The number of pixels of the scene the service evaluates the script on.
ScenePixels == 2
\* getAlpha is applied to index, min and max in -AlphaRange..AlphaRange.
AlphaRange == 3
MaxSelected == 2

\* ------------------------------------------------------------------------
\* JavaScript values: numbers, strings, arrays, undefined, null
\* ------------------------------------------------------------------------

RECURSIVE Gcd(_, _)
Gcd(a, b) == IF b = 0 THEN a ELSE Gcd(b, a % b)

Abs(i) == IF i < 0 THEN -i ELSE i

\* The number n/d, in lowest terms with a positive denominator.
Num(n, d) ==
  LET s == IF d < 0 THEN -1 ELSE 1
      g == Gcd(Abs(n), Abs(d))
  IN [t |-> "number", n |-> (s * n) \div g, d |-> (s * d) \div g]

Int2Num(i) == [t |-> "number", n |-> i, d |-> 1]
NaN == [t |-> "number", n |-> 0, d |-> 0]
Infinity == [t |-> "number", n |-> 1, d |-> 0]
NegInfinity == [t |-> "number", n |-> -1, d |-> 0]
Undefined == [t |-> "undefined"]
Null == [t |-> "null"]
Str(s) == [t |-> "string", s |-> s]
Arr(a) == [t |-> "array", a |-> a]

IsFinite(x) == x.t = "number" /\ x.d # 0

\* ToNumber of the operands the script's arithmetic meets.
ToNumber(v) ==
  IF v.t = "number" THEN v
  ELSE IF v.t = "null" THEN Int2Num(0)
  ELSE NaN

\* a + b, a - b, a * b: exact on finite operands.  The script's sums and
\* products only ever take finite operands, or undefined (NaN).
Add(a, b) ==
  LET x == ToNumber(a)
      y == ToNumber(b)
  IN IF ~IsFinite(x) \/ ~IsFinite(y) THEN NaN
     ELSE LET g == Gcd(x.d, y.d)
          IN Num(x.n * (y.d \div g) + y.n * (x.d \div g), (x.d \div g) * y.d)

Neg(a) == LET x == ToNumber(a) IN [x EXCEPT !.n = -x.n]

Sub(a, b) == Add(a, Neg(b))

Mul(a, b) ==
  LET x == ToNumber(a)
      y == ToNumber(b)
  IN IF ~IsFinite(x) \/ ~IsFinite(y) THEN NaN
     ELSE LET g1 == Gcd(Abs(x.n), y.d)
              g2 == Gcd(Abs(y.n), x.d)
          IN Num((x.n \div g1) * (y.n \div g2), (x.d \div g2) * (y.d \div g1))

\* a / b: x/0 is an infinity of x's sign, 0/0 is NaN.
Div(a, b) ==
  LET x == ToNumber(a)
      y == ToNumber(b)
  IN IF ~IsFinite(x) \/ ~IsFinite(y) THEN NaN
     ELSE IF y.n = 0
          THEN (IF x.n = 0 THEN NaN ELSE IF x.n > 0 THEN Infinity ELSE NegInfinity)
          ELSE Mul(x, Num(y.d, y.n))

\* a < b: false as soon as an operand is NaN.
Lt(a, b) ==
  LET x == ToNumber(a)
      y == ToNumber(b)
  IN IF x = NaN \/ y = NaN THEN FALSE
     ELSE IF x = y THEN FALSE
     ELSE IF x = NegInfinity \/ y = Infinity THEN TRUE
     ELSE IF x = Infinity \/ y = NegInfinity THEN FALSE
     ELSE x.n * y.d < y.n * x.d

Gt(a, b) == Lt(b, a)

Le(a, b) ==
  LET x == ToNumber(a)
      y == ToNumber(b)
  IN IF x = NaN \/ y = NaN THEN FALSE ELSE x = y \/ Lt(x, y)

Ge(a, b) == Le(b, a)

\* a === b
StrictEq(a, b) == a = b /\ a # NaN

\* obj.key of an object (a record); undefined when the object has no such
\* property, as for .ndwi of an array or of a number.
Get(obj, key) == IF key \in DOMAIN obj THEN obj[key] ELSE Undefined

\* v.length: the length of an array, undefined for a number.
Length(v) == IF v.t = "array" THEN Int2Num(Len(v.a)) ELSE Undefined

\* v[i] for a JavaScript index i (from 0).
At(v, i) ==
  IF v.t = "array" /\ i + 1 \in DOMAIN v.a THEN v.a[i + 1] ELSE Undefined

\* parseInt of a number: its integer part, NaN for a non-finite number.
parseInt(v) ==
  LET x == ToNumber(v)
  IN IF ~IsFinite(x) THEN NaN
     ELSE IF x.n >= 0 THEN Int2Num(x.n \div x.d)
     ELSE Int2Num(-((-x.n) \div x.d))

\* A decimal literal of the script, in thousandths or ten-thousandths.
Milli(n) == Num(n, 1000)
TenThousandth(n) == Num(n, 10000)

\* ------------------------------------------------------------------------
\* The evalscript (custom_script)
\* ------------------------------------------------------------------------

\* setup(): the input bands and the outputs the script declares.
setup ==
  [input |-> <<[bands |-> <<"B02", "B03", "B04", "B05", "B06", "B07", "B08",
                            "B8A", "B09", "B11">>]>>,
   output |-> <<[id |-> "default", bands |-> 3, sampleType |-> "AUTO"],
                [id |-> "chlorophyllIndex", bands |-> 1, sampleType |-> "FLOAT32"],
                [id |-> "sedimentIndex", bands |-> 1, sampleType |-> "FLOAT32"]>>]

PARAMS ==
  [chlIndex |-> Str("default"),
   tssIndex |-> Str("default"),
   watermaskIndices |-> Arr(<<Str("ndwi"), Str("hol")>>),
   chlMin |-> Milli(-5),
   chlMax |-> Milli(50),
   tssMin |-> Milli(75),
   tssMax |-> Milli(185),
   waterMax |-> Int2Num(0),
   cloudMax |-> Milli(20),
   foreground |-> Str("default"),
   foregroundOpacity |-> Int2Num(1),
   background |-> Str("default"),
   backgroundOpacity |-> Int2Num(1)]

\* getEval(s, sample): eval of a value that is not a string is that value.
getEval(s) == s

\* Mutant of getIndices: the weights of B04 and B06 in mci are exchanged.
getIndices_weightsExchanged(sample) ==
  [natural |-> Arr(<<Mul(Num(5, 2), sample.B04), Mul(Num(5, 2), sample.B03),
                     Mul(Num(5, 2), sample.B02)>>),
   chl |->
     [rlh |-> Sub(Sub(sample.B05, sample.B04),
                  Div(Sub(sample.B07,
                          Mul(sample.B04,
                              Mul(Sub(Milli(705), Milli(665)), Int2Num(1000)))),
                      Mul(Sub(Milli(783), Milli(665)), Int2Num(1000)))),
      mci |-> Sub(Sub(sample.B05,
                      Mul(Div(Sub(Milli(740), Milli(705)),
                              Sub(Milli(740), Milli(665))),
                          sample.B06)),
                  Mul(Sub(Int2Num(1),
                          Div(Sub(Milli(740), Milli(705)),
                              Sub(Milli(740), Milli(665)))),
                      sample.B04))],
   tss |-> [b05 |-> sample.B05],
   watermask |->
     [ndwi |-> Div(Sub(sample.B03, sample.B08), Add(sample.B03, sample.B08))]]

getIndices(sample) ==
  [natural |-> Arr(<<Mul(Num(5, 2), sample.B04), Mul(Num(5, 2), sample.B03),
                     Mul(Num(5, 2), sample.B02)>>),
   chl |->
     [rlh |-> Sub(Sub(sample.B05, sample.B04),
                  Div(Sub(sample.B07,
                          Mul(sample.B04,
                              Mul(Sub(Milli(705), Milli(665)), Int2Num(1000)))),
                      Mul(Sub(Milli(783), Milli(665)), Int2Num(1000)))),
      mci |-> Sub(Sub(sample.B05,
                      Mul(Div(Sub(Milli(740), Milli(705)),
                              Sub(Milli(740), Milli(665))),
                          sample.B04)),
                  Mul(Sub(Int2Num(1),
                          Div(Sub(Milli(740), Milli(705)),
                              Sub(Milli(740), Milli(665)))),
                      sample.B06))],
   tss |-> [b05 |-> sample.B05],
   watermask |->
     [ndwi |-> Div(Sub(sample.B03, sample.B08), Add(sample.B03, sample.B08))]]

\* Mutant of blend: each layer is weighted with the other layer's opacity.
blend_opacitiesExchanged(layer1, layer2, opacity1, opacity2) ==
  Arr([index \in DOMAIN layer1.a |->
         Add(Mul(Div(layer1.a[index], Int2Num(100)), opacity2),
             Mul(Div(At(layer2, index - 1), Int2Num(100)), opacity1))])

\* blend: layer1.map over the channels of layer1.
blend(layer1, layer2, opacity1, opacity2) ==
  Arr([index \in DOMAIN layer1.a |->
         Add(Mul(Div(layer1.a[index], Int2Num(100)), opacity1),
             Mul(Div(At(layer2, index - 1), Int2Num(100)), opacity2))])

getAlpha(index, min, max) ==
  IF Lt(Add(min, Div(Sub(max, min), Int2Num(2))), index)
  THEN Int2Num(100)
  ELSE IF Le(index, min) THEN Int2Num(0)
  ELSE IF Ge(index, max) THEN Int2Num(1)
  ELSE Mul(Int2Num(100), Div(Sub(index, Div(min, Int2Num(2))), Sub(max, min)))

\* colorBlend(value, limits, colors), the evaluator's built-in: the colour
\* of the first limit at or below it, of the last limit at or above it,
\* and the linear interpolation of the two neighbouring colours between.
colorBlend(value, limits, colors) ==
  LET n == Len(limits)
  IN IF ~Gt(value, limits[1]) THEN Arr(colors[1])
     ELSE IF ~Lt(value, limits[n]) THEN Arr(colors[n])
     ELSE LET i == CHOOSE k \in 1..(n - 1) :
                     Ge(value, limits[k]) /\ Lt(value, limits[k + 1])
              w == Div(Sub(value, limits[i]), Sub(limits[i + 1], limits[i]))
          IN Arr([c \in DOMAIN colors[i] |->
                    Add(colors[i][c], Mul(w, Sub(colors[i + 1][c], colors[i][c])))])

getColors(type, index, min, max) ==
  IF type = "chl"
  THEN colorBlend(index,
         <<min,
           Add(min, Div(Sub(max, min), Int2Num(3))),
           Div(Add(min, max), Int2Num(2)),
           Sub(max, Div(Sub(max, min), Int2Num(3))),
           max>>,
         <<<<TenThousandth(34), TenThousandth(142), Milli(163)>>,
           <<Int2Num(0), Milli(416), Milli(306)>>,
           <<Milli(486), Milli(980), Int2Num(0)>>,
           <<TenThousandth(9465), TenThousandth(8431), TenThousandth(1048)>>,
           <<Int2Num(1), Int2Num(0), Int2Num(0)>>>>)
  ELSE IF type = "tss"
  THEN colorBlend(index,
         <<min, max>>,
         <<<<Milli(961), Milli(871), Milli(702)>>,
           <<Milli(396), Milli(263), Milli(129)>>>>)
  ELSE Undefined

isPureWater(sample) ==
  /\ Lt(Get(sample, "B03"), Milli(319))
  /\ Lt(Get(sample, "B8A"), Milli(166))
  /\ Ge(Sub(Get(sample, "B03"), Get(sample, "B07")), Milli(27))
  /\ Lt(Sub(Get(sample, "B09"), Get(sample, "B11")), Milli(21))

isCloud(sample, limit) ==
  LET bRatio == Div(Sub(Get(sample, "B02"), Milli(175)),
                    Sub(Milli(390), Milli(175)))
  IN \/ Gt(bRatio, Int2Num(1))
     \/ /\ Gt(bRatio, Int2Num(0))
        /\ Gt(Div(Sub(Get(sample, "B04"), Get(sample, "B06")),
                  Add(Get(sample, "B04"), Get(sample, "B06"))),
              limit)

\* The for loop of isWater from index i on: false at the first selected
\* index that rejects the pixel, true when i < length no longer holds.
RECURSIVE isWaterLoop(_, _, _, _, _, _)
isWaterLoop(i, sample, availableWatermaskIndices, selectedWatermaskIndices, waterMax, cloudMax) ==
  IF ~Lt(Int2Num(i), Length(selectedWatermaskIndices)) THEN TRUE
  ELSE LET wm == At(selectedWatermaskIndices, i)
       IN IF wm = Str("ndwi")
             /\ Lt(getEval(Get(availableWatermaskIndices, "ndwi")), waterMax)
          THEN FALSE
          ELSE IF wm = Str("hol") /\ ~isPureWater(sample) THEN FALSE
          ELSE IF wm = Str("bcy") /\ isCloud(sample, cloudMax) THEN FALSE
          ELSE isWaterLoop(i + 1, sample, availableWatermaskIndices,
                           selectedWatermaskIndices, waterMax, cloudMax)

\* Mutant of isWater: only the first selected index is looked at.
isWater_firstIndexOnly(sample, availableWatermaskIndices, selectedWatermaskIndices, waterMax, cloudMax) ==
  IF StrictEq(Length(selectedWatermaskIndices), Int2Num(0)) THEN TRUE
  ELSE isWaterLoop(0, sample, availableWatermaskIndices,
                   Arr(<<At(selectedWatermaskIndices, 0)>>), waterMax,
                   cloudMax)

isWater(sample, availableWatermaskIndices, selectedWatermaskIndices, waterMax, cloudMax) ==
  IF StrictEq(Length(selectedWatermaskIndices), Int2Num(0)) THEN TRUE
  ELSE isWaterLoop(0, sample, availableWatermaskIndices,
                   selectedWatermaskIndices, waterMax, cloudMax)

getStaticColor(colorArray) ==
  Arr(<<Div(At(colorArray, 0), Int2Num(255)),
        Div(At(colorArray, 1), Int2Num(255)),
        Div(At(colorArray, 2), Int2Num(255))>>)

getBackground(background, naturalIndex, opacity) ==
  LET alpha == parseInt(Mul(opacity, Int2Num(100)))
      isRgb == background = Str("default") \/ background = Str("natural")
      backgroundLayer ==
        IF isRgb THEN getEval(naturalIndex)
        ELSE IF background = Str("black")
             THEN Arr(<<Int2Num(0), Int2Num(0), Int2Num(0)>>)
        ELSE IF background = Str("white")
             THEN Arr(<<Int2Num(1), Int2Num(1), Int2Num(1)>>)
        ELSE getStaticColor(background)
  IN IF isRgb \/ StrictEq(opacity, Int2Num(1)) THEN backgroundLayer
     ELSE blend(backgroundLayer, getEval(naturalIndex), alpha,
                Sub(Int2Num(100), alpha))

getForeground(foreground, backgroundLayer, naturalIndex, opacity) ==
  LET alpha == parseInt(Mul(opacity, Int2Num(100)))
      layer == IF foreground = Str("natural") THEN getEval(naturalIndex)
               ELSE getStaticColor(foreground)
  IN IF StrictEq(opacity, Int2Num(1)) THEN layer
     ELSE blend(layer, backgroundLayer, alpha, Sub(Int2Num(100), alpha))

\* getValue is written as its statements in turn, each stage taking the
\* locals the earlier statements assigned.

\* The return statement of getValue: rgb_value, chl_index and sed_index.
getValueReturn(foregroundOpacity, backgroundLayer, chlIndex, tssIndex, value, foregroundAlpha) ==
  [rgb_value |->
     IF StrictEq(foregroundOpacity, Int2Num(1)) THEN value
     ELSE blend(value, backgroundLayer, foregroundAlpha,
                Sub(Int2Num(100), foregroundAlpha)),
   chl_index |-> chlIndex,
   sed_index |-> tssIndex]

\* "Calculate output value": the four cases of chl and tss being null.
getValueOutput(chl, tss, foregroundOpacity, backgroundLayer, chlIndex, chlLayer, tssIndex, tssLayer, tssAlpha) ==
  getValueReturn(foregroundOpacity, backgroundLayer, chlIndex, tssIndex,
    IF chl # Null /\ tss # Null
    THEN blend(tssLayer, chlLayer, tssAlpha, Sub(Int2Num(100), tssAlpha))
    ELSE IF chl # Null /\ tss = Null THEN chlLayer
    ELSE IF tss # Null /\ chl = Null
    THEN blend(tssLayer, backgroundLayer, tssAlpha, Sub(Int2Num(100), tssAlpha))
    ELSE backgroundLayer,
    parseInt(Mul(foregroundOpacity, Int2Num(100))))

\* "Define the chlorophyll layer if needed" and "Define the sediment layer
\* if needed", from the two indices.
getValueLayers(params, backgroundLayer, chlIndex, tssIndex) ==
  getValueOutput(params.chlIndex, params.tssIndex, params.foregroundOpacity,
    backgroundLayer,
    chlIndex,
    IF params.chlIndex # Null
    THEN getColors("chl", chlIndex, params.chlMin, params.chlMax)
    ELSE Undefined,
    tssIndex,
    IF params.tssIndex # Null
    THEN getColors("tss", tssIndex, params.tssMin, params.tssMax)
    ELSE Undefined,
    IF params.tssIndex # Null
    THEN getAlpha(tssIndex, params.tssMin, params.tssMax)
    ELSE Undefined)

\* The water test and what follows it.  The call of isWater passes four
\* arguments for its five parameters: sample is indices.watermask,
\* availableWatermaskIndices is params.watermaskIndices,
\* selectedWatermaskIndices is params.waterMax, waterMax is params.cloudMax
\* and cloudMax is undefined.
getValueMasked(params, indices, backgroundLayer) ==
  IF ~isWater(indices.watermask, params.watermaskIndices, params.waterMax,
              params.cloudMax, Undefined)
  THEN backgroundLayer
  ELSE IF params.foreground # Str("default")
  THEN getForeground(params.foreground, backgroundLayer, indices.natural,
                     params.foregroundOpacity)
  ELSE getValueLayers(params, backgroundLayer,
         IF params.chlIndex # Null
         THEN getEval(Get(indices.chl,
                          IF params.chlIndex = Str("default") THEN "mci"
                          ELSE params.chlIndex.s))
         ELSE Undefined,
         IF params.tssIndex # Null
         THEN getEval(Get(indices.tss,
                          IF params.tssIndex = Str("default") THEN "b05"
                          ELSE params.tssIndex.s))
         ELSE Undefined)

\* The background layer of the indices.
getValueIndices(params, indices) ==
  getValueMasked(params, indices,
    getBackground(params.background, indices.natural, params.backgroundOpacity))

getValue(params, sample) == getValueIndices(params, getIndices(sample))

\* The object evaluatePixel returns for what getValue returned.
evaluatePixelReturn(value) ==
  [default |-> Get(value, "rgb_value"),
   chlorophyllIndex |-> Arr(<<Get(value, "chl_index")>>),
   sedimentIndex |-> Arr(<<Get(value, "sed_index")>>)]

evaluatePixel(samples) == evaluatePixelReturn(getValue(PARAMS, samples))

\* ------------------------------------------------------------------------
\* The inputs the evalscript is applied to
\* ------------------------------------------------------------------------

\* Reflectances of the bands, in thousandths.
B03Values == {0, 50, 350}
B08Values == {0, 20, 200}
B04Values == {30, 60}
B05Values == {30, 70, 100, 150}
B06Values == {30, 105}

Sample(b03, b04, b05, b06, b08) ==
  [B02 |-> Milli(40), B03 |-> Milli(b03), B04 |-> Milli(b04),
   B05 |-> Milli(b05), B06 |-> Milli(b06), B07 |-> Milli(10),
   B08 |-> Milli(b08), B8A |-> Milli(100), B09 |-> Milli(30),
   B11 |-> Milli(20)]

Samples ==
  {Sample(b03, b04, b05, b06, b08) :
     b03 \in B03Values, b04 \in B04Values, b05 \in B05Values,
     b06 \in B06Values, b08 \in B08Values}

\* index, min and max of an application of getAlpha, with min < max.
AlphaInputs ==
  {[fn |-> "getAlpha", index |-> Int2Num(a[1]), min |-> Int2Num(a[2]),
    max |-> Int2Num(a[3])] :
     a \in {b \in ((-AlphaRange)..AlphaRange) \X ((-AlphaRange)..AlphaRange)
                     \X ((-AlphaRange)..AlphaRange) : b[2] < b[3]}}

\* Pixels for isWater: B02 also varies, so that isCloud can hold.
B02Values == {40, 250, 400}

WaterSample(b02, b03, b04, b06, b08) ==
  [Sample(b03, b04, 70, b06, b08) EXCEPT !.B02 = Milli(b02)]

WaterSamples ==
  {WaterSample(b02, b03, b46[1], b46[2], b08) :
     b02 \in B02Values, b03 \in B03Values, b08 \in B08Values,
     b46 \in {<<30, 30>>, <<60, 30>>}}

\* The names a selection of water indices may hold: "ndwi", "hol", "bcy"
\* and any of their combinations, in any order.
WatermaskNames == {Str("ndwi"), Str("hol"), Str("bcy")}

WatermaskSelections ==
  {Arr(a) : a \in UNION {[1..n -> WatermaskNames] : n \in 0..MaxSelected}}

\* The limits of the NDWI below which a pixel is not water.
WaterMaxValues == {PARAMS.waterMax, Milli(500)}

\* The arguments of an application of isWater: a pixel, the indices
\* getIndices computed for it, a selection and the two limits.
WaterInputs ==
  {[fn |-> "isWater", sample |-> s,
    availableWatermaskIndices |-> getIndices(s).watermask,
    selectedWatermaskIndices |-> sel, waterMax |-> w,
    cloudMax |-> PARAMS.cloudMax] :
     s \in WaterSamples, sel \in WatermaskSelections, w \in WaterMaxValues}

\* ------------------------------------------------------------------------
\* The evalscript's functions applied to the inputs (SpecScript)
\* ------------------------------------------------------------------------

NoCall == [fn |-> "none"]

\* What one run of evaluatePixel leaves: the value getValue returned and
\* the object returned for it.
Evaluated(value) == [value |-> value, out |-> evaluatePixelReturn(value)]

ApplyEvaluatePixel ==
  /\ call.fn = "evaluatePixel"
  /\ ret = <<>>
  /\ ret' = <<Evaluated(getValue(PARAMS, call.samples))>>
  /\ UNCHANGED <<call, nbvars>>

ApplyGetAlpha ==
  /\ call.fn = "getAlpha"
  /\ ret = <<>>
  /\ ret' = <<getAlpha(call.index, call.min, call.max)>>
  /\ UNCHANGED <<call, nbvars>>

ApplyIsWater ==
  /\ call.fn = "isWater"
  /\ ret = <<>>
  /\ ret' = <<isWater(call.sample, call.availableWatermaskIndices,
                      call.selectedWatermaskIndices, call.waterMax,
                      call.cloudMax)>>
  /\ UNCHANGED <<call, nbvars>>

\* ------------------------------------------------------------------------
\* The notebook: values of the SDK
\* ------------------------------------------------------------------------

\* A name of the kernel is <<>> while unbound and <<v>> once bound to v.
Unbound == <<>>
Val(name) == name[1]

\* What getpass.getpass may return for the two prompts.
ClientIds == {"client-id", "mistyped-id"}
ClientSecrets == {"client-secret", "mistyped-secret"}

\* A point in a coordinate reference system, known by its position in
\* millionths of a degree: reprojecting it changes the system it is
\* expressed in, not the position.
Point(crs, lon, lat) == [crs |-> crs, lon |-> lon, lat |-> lat]

\* BBox((min_x, min_y, max_x, max_y), crs)
BBox(coords, crs) ==
  [crs |-> crs,
   lower_left |-> Point(crs, coords[1], coords[2]),
   upper_right |-> Point(crs, coords[3], coords[4])]

\* bbox.transform(crs): a new box, its corners reprojected; the receiver is
\* left as it is.
transform(bbox, crs) ==
  [crs |-> crs,
   lower_left |-> [bbox.lower_left EXCEPT !.crs = crs],
   upper_right |-> [bbox.upper_right EXCEPT !.crs = crs]]

\* bbox.middle: the centre (x, y) of the box.
middle(bbox) ==
  <<(bbox.lower_left.lon + bbox.upper_right.lon) \div 2,
    (bbox.lower_left.lat + bbox.upper_right.lat) \div 2>>

\* bbox.geojson: the polygon of the box, corner by corner.
geojson(bbox) ==
  [type |-> "Polygon",
   crs |-> bbox.crs,
   coordinates |->
     <<<<bbox.lower_left.lon, bbox.lower_left.lat>>,
       <<bbox.lower_left.lon, bbox.upper_right.lat>>,
       <<bbox.upper_right.lon, bbox.upper_right.lat>>,
       <<bbox.upper_right.lon, bbox.lower_left.lat>>,
       <<bbox.lower_left.lon, bbox.lower_left.lat>>>>]

\* The text bound to custom_script, by what it defines.
Evalscript == [version |-> 3, setup |-> setup, PARAMS |-> PARAMS]

\* SentinelHubRequest.output_response(identifier, MimeType.TIFF)
output_response(identifier, format) ==
  [identifier |-> identifier, format |-> format]

\* The key of a response: '<identifier>.<extension of the format>'.
TifKey(identifier) == [id |-> identifier, ext |-> "tif"]
ResponseKey(response) ==
  [id |-> response.identifier,
   ext |-> IF response.format = "TIFF" THEN "tif" ELSE "bin"]

\* Mutant of SentinelHubRequest: the third response is requested under
\* the identifier "sediment".
SentinelHubRequest_otherIdentifier(evalscript, interval, bbox, res, cfg) ==
  [evalscript |-> evalscript,
   input_data |->
     <<[data_collection |-> [api_id |-> "s2l2a", service_url |-> cfg.sh_base_url],
        time_interval |-> interval,
        mosaicking_order |-> "leastCC"]>>,
   responses |-> <<output_response("default", "TIFF"),
                   output_response("chlorophyllIndex", "TIFF"),
                   output_response("sediment", "TIFF")>>,
   bbox |-> bbox,
   resolution |-> res,
   config |-> cfg,
   data_folder |-> "./data"]

\* SentinelHubRequest(...) of the request cell.
SentinelHubRequest(evalscript, interval, bbox, res, cfg) ==
  [evalscript |-> evalscript,
   input_data |->
     <<[data_collection |-> [api_id |-> "s2l2a", service_url |-> cfg.sh_base_url],
        time_interval |-> interval,
        mosaicking_order |-> "leastCC"]>>,
   responses |-> <<output_response("default", "TIFF"),
                   output_response("chlorophyllIndex", "TIFF"),
                   output_response("sedimentIndex", "TIFF")>>,
   bbox |-> bbox,
   resolution |-> res,
   config |-> cfg,
   data_folder |-> "./data"]

\* ------------------------------------------------------------------------
\* The service: the script evaluated on the pixels of a scene
\* ------------------------------------------------------------------------

\* The pixels the service may find in the mosaic of the area and interval.
SceneSamples ==
  {Sample(50, 30, 30, 30, 20), Sample(50, 60, 70, 30, 0),
   Sample(350, 30, 100, 105, 20), Sample(50, 60, 150, 105, 200),
   Sample(0, 30, 100, 30, 0)}

Scenes == [1..ScenePixels -> SceneSamples]

\* A value of an output written with the output's sampleType: AUTO maps
\* 0..1 to the integers 0..255, FLOAT32 keeps the number.
EncodeSample(sampleType, v) ==
  IF sampleType = "AUTO"
  THEN (IF ~IsFinite(ToNumber(v)) \/ Le(v, Int2Num(0)) THEN 0
        ELSE IF Ge(v, Int2Num(1)) THEN 255
        ELSE LET x == Add(Mul(Int2Num(255), v), Num(1, 2))
             IN x.n \div x.d)
  ELSE ToNumber(v)

\* The script's result for one pixel is usable when every output is an
\* array with as many values as the output has bands.
ValidOutput(out) ==
  \A i \in DOMAIN setup.output :
    LET o == setup.output[i]
        v == Get(out, o.id)
    IN v.t = "array" /\ Len(v.a) = o.bands

\* The raster of one output over the scene.
Raster(o, scene) ==
  [bands |-> o.bands,
   sampleType |-> o.sampleType,
   pixels |-> [p \in DOMAIN scene |->
                 LET v == Get(evaluatePixel(scene[p]), o.id)
                 IN [b \in 1..o.bands |-> EncodeSample(o.sampleType, At(v, b - 1))]]]

\* The mapping get_data returns for a request: one raster for each
\* requested response the script declares an output for.
ResponseMapping(request, scene) ==
  LET wanted == {i \in DOMAIN request.responses :
                   \E j \in DOMAIN request.evalscript.setup.output :
                     request.evalscript.setup.output[j].id
                       = request.responses[i].identifier}
      OutputOf(i) ==
        CHOOSE o \in {request.evalscript.setup.output[j] :
                        j \in DOMAIN request.evalscript.setup.output} :
          o.id = request.responses[i].identifier
  IN [k \in {ResponseKey(request.responses[i]) : i \in wanted} |->
        LET i == CHOOSE i \in wanted : ResponseKey(request.responses[i]) = k
        IN Raster(OutputOf(i), scene)]

\* The credentials the identity service accepts.
Authenticates(cfg) ==
  /\ cfg.sh_client_id = "client-id"
  /\ cfg.sh_client_secret = "client-secret"

\* The exceptions a get_data call of this request may end with.
Failures(request) ==
  {"network", "quota"}
    \cup (IF Authenticates(request.config) THEN {} ELSE {"authentication"})
    \cup (IF \E s \in SceneSamples : ~ValidOutput(evaluatePixel(s))
          THEN {"script"} ELSE {})

\* ------------------------------------------------------------------------
\* The notebook: its code cells, in the order of the file
\* ------------------------------------------------------------------------

\* Mutant of After: the cell plotting default.tif is placed before the
\* get_data cell.
After_plotBeforeGetData(cell) ==
  CASE cell = "cell1" -> "cell2"
    [] cell = "cell2" -> "cell4"
    [] cell = "cell4" -> "cell6"
    [] cell = "cell6" -> "cell8"
    [] cell = "cell8" -> "cell10"
    [] cell = "cell10" -> "cell11"
    [] cell = "cell11" -> "cell14"
    [] cell = "cell14" -> "cell13"
    [] cell = "cell13" -> "cell16"
    [] cell = "cell16" -> "done"

\* The code cell that follows a code cell (cells 1, 2, 4, 6, 8, 10, 11, 13,
\* 14 and 16 of the notebook; the others are markdown).
After(cell) ==
  CASE cell = "cell1" -> "cell2"
    [] cell = "cell2" -> "cell4"
    [] cell = "cell4" -> "cell6"
    [] cell = "cell6" -> "cell8"
    [] cell = "cell8" -> "cell10"
    [] cell = "cell10" -> "cell11"
    [] cell = "cell11" -> "cell13"
    [] cell = "cell13" -> "cell14"
    [] cell = "cell14" -> "cell16"
    [] cell = "cell16" -> "done"

\* An exception ends the run: no later cell is executed.
Raise(kind) ==
  /\ exception' = kind
  /\ pc' = "error"
  /\ log' = Append(log, "raise")

\* %reload_ext autoreload, %autoreload 2, %matplotlib inline
Cell1Magics ==
  /\ pc = "cell1"
  /\ pc' = After("cell1")
  /\ UNCHANGED <<config, taihu_lake_bbox, time_interval, resolution,
                 overview_map, custom_script, request_UWQV, download_data,
                 img, chlorophyll_index, sediment_index, inFlight, sent,
                 figures, disk, exception, log, jsvars>>

\* import getpass, ipyleaflet, matplotlib, sentinelhub, utils.plot_image
Cell2Imports ==
  /\ pc = "cell2"
  /\ pc' = After("cell2")
  /\ UNCHANGED <<config, taihu_lake_bbox, time_interval, resolution,
                 overview_map, custom_script, request_UWQV, download_data,
                 img, chlorophyll_index, sediment_index, inFlight, sent,
                 figures, disk, exception, log, jsvars>>

\* config = SHConfig() and its four assignments; config.save is commented
\* out, so nothing is written.
Cell4Config ==
  /\ pc = "cell4"
  /\ \E id \in ClientIds, secret \in ClientSecrets :
       config' = <<[sh_client_id |-> id,
                    sh_client_secret |-> secret,
                    sh_token_url |-> "https://identity.dataspace.copernicus.eu/auth/realms/CDSE/protocol/openid-connect/token",
                    sh_base_url |-> "https://sh.dataspace.copernicus.eu"]>>
  /\ log' = Append(log, "config")
  /\ pc' = After("cell4")
  /\ UNCHANGED <<taihu_lake_bbox, time_interval, resolution, overview_map,
                 custom_script, request_UWQV, download_data, img,
                 chlorophyll_index, sediment_index, inFlight, sent, figures,
                 disk, exception, jsvars>>

\* #config = SHConfig("profile_name"): a comment only.
Cell6Profile ==
  /\ pc = "cell6"
  /\ pc' = After("cell6")
  /\ UNCHANGED <<config, taihu_lake_bbox, time_interval, resolution,
                 overview_map, custom_script, request_UWQV, download_data,
                 img, chlorophyll_index, sediment_index, inFlight, sent,
                 figures, disk, exception, log, jsvars>>

\* taihu_lake_bbox, time_interval and resolution of the area cell.
Cell8Bbox ==
  /\ pc = "cell8"
  /\ taihu_lake_bbox' =
       <<transform(BBox(<<119730100, 30919636, 120684429, 31661304>>, 4326),
                   3035)>>
  /\ time_interval' = <<<<"2023-09-01", "2023-09-30">>>>
  /\ resolution' = <<<<100, 100>>>>
  /\ pc' = "cell8_map"
  /\ UNCHANGED <<config, overview_map, custom_script, request_UWQV,
                 download_data, img, chlorophyll_index, sediment_index,
                 inFlight, sent, figures, disk, exception, log, jsvars>>

\* Mutant of Cell8Map: transform(4326) reprojects taihu_lake_bbox in place.
Cell8Map_transformInPlace ==
  /\ pc = "cell8_map"
  /\ taihu_lake_bbox' = <<transform(Val(taihu_lake_bbox), 4326)>>
  /\ LET xy == middle(transform(Val(taihu_lake_bbox), 4326))
         geo_json == [data |-> geojson(transform(Val(taihu_lake_bbox), 4326))]
     IN overview_map' = <<[basemap |-> "OpenStreetMap.Mapnik",
                           center |-> <<xy[2], xy[1]>>,
                           zoom |-> 8,
                           layers |-> <<geo_json>>]>>
  /\ pc' = After("cell8")
  /\ UNCHANGED <<config, time_interval, resolution, custom_script,
                 request_UWQV, download_data, img, chlorophyll_index,
                 sediment_index, inFlight, sent, figures, disk, exception,
                 log, jsvars>>

\* The overview map of the area cell: its centre and the GeoJSON layer,
\* both from taihu_lake_bbox.transform(4326).
Cell8Map ==
  /\ pc = "cell8_map"
  /\ LET xy == middle(transform(Val(taihu_lake_bbox), 4326))
         geo_json == [data |-> geojson(transform(Val(taihu_lake_bbox), 4326))]
     IN overview_map' = <<[basemap |-> "OpenStreetMap.Mapnik",
                           center |-> <<xy[2], xy[1]>>,
                           zoom |-> 8,
                           layers |-> <<geo_json>>]>>
  /\ pc' = After("cell8")
  /\ UNCHANGED <<config, taihu_lake_bbox, time_interval, resolution,
                 custom_script, request_UWQV, download_data, img,
                 chlorophyll_index, sediment_index, inFlight, sent, figures,
                 disk, exception, log, jsvars>>

\* custom_script = """ ... """
Cell10Script ==
  /\ pc = "cell10"
  /\ custom_script' = <<Evalscript>>
  /\ pc' = After("cell10")
  /\ UNCHANGED <<config, taihu_lake_bbox, time_interval, resolution,
                 overview_map, request_UWQV, download_data, img,
                 chlorophyll_index, sediment_index, inFlight, sent, figures,
                 disk, exception, log, jsvars>>

\* time_interval again, then request_UWQV = SentinelHubRequest(...).
Cell11Request ==
  /\ pc = "cell11"
  /\ time_interval' = <<<<"2023-09-01", "2023-09-30">>>>
  /\ IF \/ custom_script = Unbound
        \/ config = Unbound
        \/ taihu_lake_bbox = Unbound
        \/ resolution = Unbound
     THEN /\ Raise("NameError")
          /\ UNCHANGED request_UWQV
     ELSE /\ request_UWQV' =
               <<SentinelHubRequest(Val(custom_script),
                                    <<"2023-09-01", "2023-09-30">>,
                                    Val(taihu_lake_bbox), Val(resolution),
                                    Val(config))>>
          /\ log' = Append(log, "request")
          /\ pc' = After("cell11")
          /\ UNCHANGED exception
  /\ UNCHANGED <<config, taihu_lake_bbox, resolution, overview_map,
                 custom_script, download_data, img, chlorophyll_index,
                 sediment_index, inFlight, sent, figures, disk, jsvars>>

\* request_UWQV.get_data(save_data=True): the call is made and the cell
\* waits for it.
Cell13GetData ==
  /\ pc = "cell13"
  /\ IF request_UWQV = Unbound
     THEN /\ Raise("NameError")
          /\ UNCHANGED <<sent, inFlight>>
     ELSE /\ sent' = Append(sent, [request |-> Val(request_UWQV),
                                   save_data |-> TRUE])
          /\ inFlight' = inFlight \cup {Len(sent) + 1}
          /\ log' = Append(log, "get_data")
          /\ pc' = "cell13_wait"
          /\ UNCHANGED exception
  /\ UNCHANGED <<config, taihu_lake_bbox, time_interval, resolution,
                 overview_map, custom_script, request_UWQV, download_data,
                 img, chlorophyll_index, sediment_index, figures, disk,
                 jsvars>>

\* Mutant of SavedFiles: the call does not save what it downloads.
SavedFiles_notSaved(c, mapping) == {}

\* The files get_data writes for a call made with save_data.
SavedFiles(c, mapping) ==
  IF c.save_data
  THEN {[folder |-> c.request.data_folder, name |-> k, content |-> mapping[k]] :
          k \in DOMAIN mapping}
  ELSE {}

\* get_data returns the list of the one response; download_data is bound
\* to its element [0] and the files are saved.
Cell13Return ==
  /\ pc = "cell13_wait"
  /\ \E c \in inFlight :
       /\ Authenticates(sent[c].request.config)
       /\ \E scene \in Scenes :
            /\ \A p \in DOMAIN scene : ValidOutput(evaluatePixel(scene[p]))
            /\ LET data == <<ResponseMapping(sent[c].request, scene)>>
               IN /\ download_data' = <<data[1]>>
                  /\ disk' = disk \cup SavedFiles(sent[c], data[1])
       /\ inFlight' = inFlight \ {c}
  /\ log' = Append(log, "response")
  /\ pc' = After("cell13")
  /\ UNCHANGED <<config, taihu_lake_bbox, time_interval, resolution,
                 overview_map, custom_script, request_UWQV, img,
                 chlorophyll_index, sediment_index, sent, figures,
                 exception, jsvars>>

\* Mutant of Cell13Raise: a first failure is caught and the cell is run
\* again.
Cell13Raise_retry ==
  /\ pc = "cell13_wait"
  /\ \E c \in inFlight :
       /\ IF Len(sent) < 2
          THEN pc' = "cell13" /\ UNCHANGED <<exception, log>>
          ELSE \E kind \in Failures(sent[c].request) : Raise(kind)
       /\ inFlight' = inFlight \ {c}
  /\ UNCHANGED <<config, taihu_lake_bbox, time_interval, resolution,
                 overview_map, custom_script, request_UWQV, download_data,
                 img, chlorophyll_index, sediment_index, sent, figures, disk,
                 jsvars>>

\* get_data raises the SDK's exception: the assignment to download_data is
\* not reached and the run ends.
Cell13Raise ==
  /\ pc = "cell13_wait"
  /\ \E c \in inFlight :
       /\ \E kind \in Failures(sent[c].request) : Raise(kind)
       /\ inFlight' = inFlight \ {c}
  /\ UNCHANGED <<config, taihu_lake_bbox, time_interval, resolution,
                 overview_map, custom_script, request_UWQV, download_data,
                 img, chlorophyll_index, sediment_index, sent, figures, disk,
                 jsvars>>

\* Mutant of Cell14PlotDefault: the raster is fetched by a second get_data
\* call instead of being read from download_data.
Cell14PlotDefault_fetchAgain ==
  /\ pc = "cell14"
  /\ download_data # Unbound
  /\ sent' = Append(sent, [request |-> Val(request_UWQV), save_data |-> FALSE])
  /\ img' = <<Val(download_data)[TifKey("default")]>>
  /\ figures' = Append(figures,
                       [fn |-> "plot_image",
                        image |-> Val(download_data)[TifKey("default")],
                        factor |-> <<1, 255>>,
                        clip_range |-> <<0, 1>>])
  /\ log' = Append(log, "plot_image")
  /\ pc' = After("cell14")
  /\ UNCHANGED <<config, taihu_lake_bbox, time_interval, resolution,
                 overview_map, custom_script, request_UWQV, download_data,
                 chlorophyll_index, sediment_index, inFlight, disk,
                 exception, jsvars>>

\* Mutant of Cell14PlotDefault: download_data.pop("default.tif") takes the
\* raster out of the mapping.
Cell14PlotDefault_pop ==
  /\ pc = "cell14"
  /\ download_data # Unbound
  /\ img' = <<Val(download_data)[TifKey("default")]>>
  /\ download_data' =
       <<[k \in DOMAIN Val(download_data) \ {TifKey("default")} |->
            Val(download_data)[k]]>>
  /\ figures' = Append(figures,
                       [fn |-> "plot_image",
                        image |-> Val(download_data)[TifKey("default")],
                        factor |-> <<1, 255>>,
                        clip_range |-> <<0, 1>>])
  /\ log' = Append(log, "plot_image")
  /\ pc' = After("cell14")
  /\ UNCHANGED <<config, taihu_lake_bbox, time_interval, resolution,
                 overview_map, custom_script, request_UWQV,
                 chlorophyll_index, sediment_index, inFlight, sent, disk,
                 exception, jsvars>>

\* img = download_data["default.tif"]; plot_image(img, factor=1/255,
\* clip_range=(0, 1))
Cell14PlotDefault ==
  /\ pc = "cell14"
  /\ IF download_data = Unbound
     THEN /\ Raise("NameError")
          /\ UNCHANGED <<img, figures>>
     ELSE IF TifKey("default") \notin DOMAIN Val(download_data)
     THEN /\ Raise("KeyError")
          /\ UNCHANGED <<img, figures>>
     ELSE /\ img' = <<Val(download_data)[TifKey("default")]>>
          /\ figures' = Append(figures,
                               [fn |-> "plot_image",
                                image |-> Val(download_data)[TifKey("default")],
                                factor |-> <<1, 255>>,
                                clip_range |-> <<0, 1>>])
          /\ log' = Append(log, "plot_image")
          /\ pc' = After("cell14")
          /\ UNCHANGED exception
  /\ UNCHANGED <<config, taihu_lake_bbox, time_interval, resolution,
                 overview_map, custom_script, request_UWQV, download_data,
                 chlorophyll_index, sediment_index, inFlight, sent, disk,
                 jsvars>>

\* chlorophyll_index and sediment_index read from download_data, then the
\* two imshow calls.
Cell16PlotIndices ==
  /\ pc = "cell16"
  /\ IF download_data = Unbound
     THEN /\ Raise("NameError")
          /\ UNCHANGED <<chlorophyll_index, sediment_index, figures>>
     ELSE IF TifKey("chlorophyllIndex") \notin DOMAIN Val(download_data)
     THEN /\ Raise("KeyError")
          /\ UNCHANGED <<chlorophyll_index, sediment_index, figures>>
     ELSE IF TifKey("sedimentIndex") \notin DOMAIN Val(download_data)
     THEN /\ Raise("KeyError")
          /\ chlorophyll_index' = <<Val(download_data)[TifKey("chlorophyllIndex")]>>
          /\ UNCHANGED <<sediment_index, figures>>
     ELSE /\ chlorophyll_index' = <<Val(download_data)[TifKey("chlorophyllIndex")]>>
          /\ sediment_index' = <<Val(download_data)[TifKey("sedimentIndex")]>>
          /\ figures' = figures
               \o <<[fn |-> "imshow",
                     image |-> Val(download_data)[TifKey("chlorophyllIndex")]],
                    [fn |-> "imshow",
                     image |-> Val(download_data)[TifKey("sedimentIndex")]]>>
          /\ log' = log \o <<"imshow", "imshow">>
          /\ pc' = After("cell16")
          /\ UNCHANGED exception
  /\ UNCHANGED <<config, taihu_lake_bbox, time_interval, resolution,
                 overview_map, custom_script, request_UWQV, download_data,
                 img, inFlight, sent, disk, jsvars>>

\* ------------------------------------------------------------------------
\* The specifications
\* ------------------------------------------------------------------------

\* A fresh kernel: no name bound, nothing sent, plotted or written.
NbInit ==
  /\ pc = "cell1"
  /\ config = Unbound
  /\ taihu_lake_bbox = Unbound
  /\ time_interval = Unbound
  /\ resolution = Unbound
  /\ overview_map = Unbound
  /\ custom_script = Unbound
  /\ request_UWQV = Unbound
  /\ download_data = Unbound
  /\ img = Unbound
  /\ chlorophyll_index = Unbound
  /\ sediment_index = Unbound
  /\ inFlight = {}
  /\ sent = <<>>
  /\ figures = <<>>
  /\ disk = {}
  /\ exception = "none"
  /\ log = <<>>

Init ==
  /\ NbInit
  /\ call = NoCall
  /\ ret = <<>>

Next ==
  \/ Cell1Magics
  \/ Cell2Imports
  \/ Cell4Config
  \/ Cell6Profile
  \/ Cell8Bbox
  \/ Cell8Map
  \/ Cell10Script
  \/ Cell11Request
  \/ Cell13GetData
  \/ Cell13Return
  \/ Cell13Raise
  \/ Cell14PlotDefault
  \/ Cell16PlotIndices

\* The run of the notebook, cell after cell.
Spec == Init /\ [][Next]_vars

\* The evalscript applied to one pixel, getAlpha to one triple, or isWater
\* to one pixel and selection.
InitScript ==
  /\ NbInit
  /\ \/ \E s \in Samples : call = [fn |-> "evaluatePixel", samples |-> s]
     \/ call \in AlphaInputs
     \/ call \in WaterInputs
  /\ ret = <<>>

NextScript ==
  \/ ApplyEvaluatePixel
  \/ ApplyGetAlpha
  \/ ApplyIsWater

SpecScript == InitScript /\ [][NextScript]_vars

\* ------------------------------------------------------------------------
\* Properties of the run of the notebook
\* ------------------------------------------------------------------------

\* The pipeline steps of a run that reaches its last cell.
ExpectedOrder ==
  <<"config", "request", "get_data", "response", "plot_image", "imshow",
    "imshow">>

IsPrefix(s, t) ==
  /\ Len(s) <= Len(t)
  /\ \A i \in 1..Len(s) : s[i] = t[i]

\* C1: the steps of a run occur in the order config, request, get_data,
\* response, plotting, none skipped or reordered (a run get_data fails in
\* ends there), the request is built from the configuration, the bounding
\* box, the time interval and the script, and nothing is plotted before
\* the response mapping has been received.
C1_PipelineOrder ==
  /\ \/ IsPrefix(log, ExpectedOrder)
     \/ log = <<"config", "request", "get_data", "raise">>
  /\ pc = "done" => log = ExpectedOrder
  /\ request_UWQV # Unbound =>
       /\ config # Unbound
       /\ Val(request_UWQV).config = Val(config)
       /\ Val(request_UWQV).bbox = Val(taihu_lake_bbox)
       /\ Val(request_UWQV).input_data[1].time_interval = Val(time_interval)
       /\ Val(request_UWQV).evalscript = Val(custom_script)
       /\ Len(Val(request_UWQV).responses) = 3
  /\ sent # <<>> => request_UWQV # Unbound
  /\ download_data # Unbound => sent # <<>>
  /\ figures # <<>> => download_data # Unbound /\ inFlight = {}

\* C1 witness: a run that reached the end, every step taken in order.
C1_Witness ==
  /\ pc = "done"
  /\ log = ExpectedOrder
  /\ Len(figures) = 3

\* C2: one get_data call is made over a run, at most one is in flight, and
\* while it is in flight the only step is its return or its exception:
\* nothing else runs and nothing cancels it.
C2_SingleRequest ==
  /\ [](/\ Len(sent) <= 1
        /\ Cardinality(inFlight) <= 1
        /\ pc = "done" => Len(sent) = 1
        /\ inFlight # {} => pc = "cell13_wait")
  /\ [][inFlight # {} =>
          /\ inFlight' = {}
          /\ sent' = sent
          /\ download_data' # Unbound \/ exception' # "none"]_vars

\* C2 witness: the one call in flight, the notebook waiting for it.
C2_Witness ==
  /\ inFlight = {1}
  /\ Len(sent) = 1
  /\ pc = "cell13_wait"

\* C4: when get_data fails, the run ends with the SDK's exception: the
\* request was handed over once, download_data is not bound, nothing is
\* plotted, and no step follows.
C4_FailureSurfaced ==
  /\ [](exception # "none" =>
          /\ exception \in {"authentication", "network", "quota", "script"}
          /\ pc = "error"
          /\ Len(sent) = 1
          /\ inFlight = {}
          /\ download_data = Unbound
          /\ img = Unbound
          /\ figures = <<>>)
  /\ [][exception = "none"]_vars

\* C4 witness: a run ended by a failure of the call.
C4_Witness ==
  /\ exception = "quota"
  /\ pc = "error"
  /\ Len(sent) = 1

\* C5: once bound, the bounding box, the time interval and the request
\* keep their values through every later step, and the request handed to
\* get_data carries the bounding box and the time interval as defined.
C5_InputsUnchanged ==
  /\ [](/\ time_interval # Unbound =>
             Val(time_interval) = <<"2023-09-01", "2023-09-30">>
        /\ taihu_lake_bbox # Unbound => Val(taihu_lake_bbox).crs = 3035
        /\ \A i \in DOMAIN sent :
             /\ sent[i].request = Val(request_UWQV)
             /\ sent[i].request.bbox = Val(taihu_lake_bbox)
             /\ sent[i].request.input_data[1].time_interval
                  = <<"2023-09-01", "2023-09-30">>)
  /\ [][/\ taihu_lake_bbox # Unbound => taihu_lake_bbox' = taihu_lake_bbox
        /\ time_interval # Unbound => time_interval' = time_interval
        /\ request_UWQV # Unbound => request_UWQV' = request_UWQV]_vars

\* C5 witness: the request was issued after the map was drawn from the
\* reprojected box, and the run went on to plot.
C5_Witness ==
  /\ overview_map # Unbound
  /\ Len(sent) = 1
  /\ sent[1].request.bbox = Val(taihu_lake_bbox)
  /\ Len(figures) = 1

\* C6: download_data is bound once, by the return of the one get_data
\* call, and no later step changes it: the reads and the plots leave every
\* entry as it is.
C6_ResponseReadOnly ==
  /\ [](download_data # Unbound =>
          /\ Len(sent) = 1
          /\ DOMAIN Val(download_data)
               = {TifKey("default"), TifKey("chlorophyllIndex"),
                  TifKey("sedimentIndex")})
  /\ [][/\ download_data # Unbound => download_data' = download_data
        /\ download_data' # download_data =>
             inFlight # {} /\ inFlight' = {}]_vars

\* C6 witness: the three rasters read and plotted, the mapping still whole.
C6_Witness ==
  /\ Len(figures) = 3
  /\ img # Unbound /\ chlorophyll_index # Unbound /\ sediment_index # Unbound
  /\ Cardinality(DOMAIN Val(download_data)) = 3

\* C7: after a successful get_data(save_data=True) every raster of the
\* response is a file under ./data, every file written is such a raster,
\* and a failed call leaves nothing written.
C7_OnlyResponseCached ==
  /\ download_data # Unbound =>
       \A k \in DOMAIN Val(download_data) :
         [folder |-> "./data", name |-> k, content |-> Val(download_data)[k]]
           \in disk
  /\ \A f \in disk :
       /\ f.folder = "./data"
       /\ download_data # Unbound
       /\ f.name \in DOMAIN Val(download_data)
       /\ f.content = Val(download_data)[f.name]
  /\ exception # "none" => disk = {}

\* C7 witness: the call returned and its three files are on disk.
C7_Witness ==
  /\ pc = "cell14"
  /\ Cardinality(disk) = 3
  /\ \A f \in disk : f.folder = "./data"

\* ------------------------------------------------------------------------
\* Properties of the evalscript
\* ------------------------------------------------------------------------

\* A pixel the selected water-mask indices ['ndwi', 'hol'] reject: NDWI is
\* below PARAMS.waterMax, or the Hollstein pure-water test fails.
RejectedByWaterMask(s) ==
  \/ Lt(Div(Sub(s.B03, s.B08), Add(s.B03, s.B08)), PARAMS.waterMax)
  \/ ~isPureWater(s)

\* The natural-colour layer, the background of the shipped PARAMS.
NaturalLayer(s) ==
  Arr(<<Mul(Num(5, 2), s.B04), Mul(Num(5, 2), s.B03), Mul(Num(5, 2), s.B02)>>)

\* C3: for a pixel the water mask rejects, getValue returns the background
\* layer and no chlorophyll or sediment value.
C3_NonWaterIsBackground ==
  (call.fn = "evaluatePixel" /\ ret # <<>> /\ RejectedByWaterMask(call.samples))
    => /\ ret[1].value = NaturalLayer(call.samples)
       /\ "chl_index" \notin DOMAIN ret[1].value
       /\ "sed_index" \notin DOMAIN ret[1].value

InOpacityRange(a) == Ge(a, Int2Num(0)) /\ Le(a, Int2Num(100))

\* C8: getAlpha(index, min, max) with min < max lies in 0..100, and so do
\* the sediment opacity of getValue and its complement.
C8_AlphaInRange ==
  /\ (call.fn = "getAlpha" /\ ret # <<>>) =>
       /\ InOpacityRange(ret[1])
       /\ InOpacityRange(Sub(Int2Num(100), ret[1]))
  /\ (call.fn = "evaluatePixel" /\ ret # <<>>
        /\ "sed_index" \in DOMAIN ret[1].value) =>
       /\ InOpacityRange(getAlpha(ret[1].value.sed_index, PARAMS.tssMin,
                                  PARAMS.tssMax))
       /\ InOpacityRange(Sub(Int2Num(100),
                             getAlpha(ret[1].value.sed_index, PARAMS.tssMin,
                                      PARAMS.tssMax)))

\* B04, B05 and B06 on one straight line over 665, 705 and 740 nm.
Collinear(s) ==
  Mul(Sub(s.B05, s.B04), Int2Num(740 - 665))
    = Mul(Sub(s.B06, s.B04), Int2Num(705 - 665))

\* C9: for a water pixel the chlorophyll index is
\* B05 - (35/75)*B04 - (40/75)*B06, so it is 0 when the three bands are
\* collinear, and two water pixels that agree on B04, B05 and B06 get the
\* same index.
C9_ChlorophyllLineHeight ==
  (call.fn = "evaluatePixel" /\ ret # <<>>
     /\ ~RejectedByWaterMask(call.samples)) =>
    LET s == call.samples
        chl == Get(ret[1].value, "chl_index")
    IN /\ Mul(Int2Num(75), chl)
            = Sub(Sub(Mul(Int2Num(75), s.B05), Mul(Int2Num(35), s.B04)),
                  Mul(Int2Num(40), s.B06))
       /\ Collinear(s) => chl = Int2Num(0)
       /\ ret[1].out.chlorophyllIndex = Arr(<<chl>>)
       /\ \A o \in Samples :
            (/\ ~RejectedByWaterMask(o)
             /\ o.B04 = s.B04 /\ o.B05 = s.B05 /\ o.B06 = s.B06)
              => Get(getValue(PARAMS, o), "chl_index") = chl

\* C9 witness: a water pixel whose B05 lies on the rising line from B04 to
\* B06, evaluated to the index 0.
C9_Witness ==
  /\ call.fn = "evaluatePixel"
  /\ ret # <<>>
  /\ call.samples = Sample(50, 30, 70, 105, 20)
  /\ ~RejectedByWaterMask(call.samples)
  /\ Collinear(call.samples)
  /\ Get(ret[1].value, "chl_index") = Int2Num(0)

\* C10: for a water pixel under the shipped PARAMS the RGB value is
\* (sediment colour / 100) * tssAlpha + (chlorophyll colour / 100) *
\* (100 - tssAlpha): the chlorophyll colour at a sediment index of tssMin
\* or less, the sediment colour above the midpoint of tssMin and tssMax,
\* and the value returned as `default` is that value, not blended further.
C10_SedimentOverChlorophyll ==
  (call.fn = "evaluatePixel" /\ ret # <<>>
     /\ ~RejectedByWaterMask(call.samples)) =>
    LET v == ret[1].value
        rgb == Get(v, "rgb_value")
        sed == Get(v, "sed_index")
        chlColour == getColors("chl", Get(v, "chl_index"), PARAMS.chlMin,
                               PARAMS.chlMax)
        tssColour == getColors("tss", sed, PARAMS.tssMin, PARAMS.tssMax)
        tssAlpha == getAlpha(sed, PARAMS.tssMin, PARAMS.tssMax)
        midpoint == Div(Add(PARAMS.tssMin, PARAMS.tssMax), Int2Num(2))
    IN /\ rgb.t = "array" /\ Len(rgb.a) = 3
       /\ \A i \in 1..3 :
            Mul(Int2Num(100), rgb.a[i])
              = Add(Mul(tssColour.a[i], tssAlpha),
                    Mul(chlColour.a[i], Sub(Int2Num(100), tssAlpha)))
       /\ Le(sed, PARAMS.tssMin) => rgb = chlColour
       /\ Gt(sed, midpoint) => rgb = tssColour
       /\ ret[1].out.default = rgb

\* C10 witness: a water pixel with a sediment index above the midpoint,
\* coloured with the sediment colour alone.
C10_Witness ==
  /\ call.fn = "evaluatePixel"
  /\ ret # <<>>
  /\ call.samples = Sample(50, 60, 150, 30, 0)
  /\ ~RejectedByWaterMask(call.samples)
  /\ Gt(call.samples.B05, Milli(130))
  /\ getAlpha(call.samples.B05, PARAMS.tssMin, PARAMS.tssMax) = Int2Num(100)
  /\ Get(ret[1].value, "rgb_value")
       = getColors("tss", call.samples.B05, PARAMS.tssMin, PARAMS.tssMax)
  /\ Get(ret[1].value, "rgb_value")
       # getColors("chl", Get(ret[1].value, "chl_index"), PARAMS.chlMin,
                   PARAMS.chlMax)

\* Whether the selected index wm rejects the pixel.
Rejects(wm, c) ==
  \/ wm = Str("ndwi") /\ Lt(c.availableWatermaskIndices.ndwi, c.waterMax)
  \/ wm = Str("hol") /\ ~isPureWater(c.sample)
  \/ wm = Str("bcy") /\ isCloud(c.sample, c.cloudMax)

\* The names a selection lists, whatever their order.
Listed(sel) == {sel.a[i] : i \in DOMAIN sel.a}

\* C11: isWater returns true for the empty selection, and otherwise true
\* exactly when no selected index rejects the pixel ('ndwi' when NDWI <
\* waterMax, 'hol' when isPureWater is false, 'bcy' when isCloud is true);
\* a selection listing the same indices in another order gives the same
\* result.
C11_IsWaterSelection ==
  (call.fn = "isWater" /\ ret # <<>>) =>
    /\ (Len(call.selectedWatermaskIndices.a) = 0 => ret[1] = TRUE)
    /\ ret[1] = (\A wm \in Listed(call.selectedWatermaskIndices) :
                   ~Rejects(wm, call))
    /\ \A sel \in WatermaskSelections :
         Listed(sel) = Listed(call.selectedWatermaskIndices) =>
           isWater(call.sample, call.availableWatermaskIndices, sel,
                   call.waterMax, call.cloudMax) = ret[1]

\* C11 witness: 'hol' listed before 'ndwi' for a pixel that 'hol' accepts
\* and 'ndwi' rejects; isWater has returned false.
C11_Witness ==
  /\ call.fn = "isWater"
  /\ ret = <<FALSE>>
  /\ call.selectedWatermaskIndices = Arr(<<Str("hol"), Str("ndwi")>>)
  /\ ~Rejects(Str("hol"), call)
  /\ Rejects(Str("ndwi"), call)

\* ------------------------------------------------------------------------
\* The names of the outputs along the run of the notebook
\* ------------------------------------------------------------------------

\* The output ids a setup() declares.
DeclaredIds(s) == {s.output[i].id : i \in DOMAIN s.output}

\* The response identifiers a request asks for.
RequestedIds(request) ==
  {request.responses[i].identifier : i \in DOMAIN request.responses}

\* The name bound from the mapping holds the raster of a requested
\* identifier, read under the key '<id>.tif'.
ReadOfRequested(name, id) ==
  name # Unbound =>
    /\ id \in RequestedIds(Val(request_UWQV))
    /\ TifKey(id) \in DOMAIN Val(download_data)
    /\ Val(name) = Val(download_data)[TifKey(id)]

\* C12: once the request is built, the output ids setup() declares
\* (default, chlorophyllIndex, sedimentIndex) are the keys evaluatePixel
\* returns and the response identifiers of the request; every read of the
\* response mapping is of '<id>.tif' for a requested identifier, so no read
\* ends in a KeyError.
C12_OutputNamesAgree ==
  /\ request_UWQV # Unbound =>
       /\ DeclaredIds(Val(request_UWQV).evalscript.setup)
            = {"default", "chlorophyllIndex", "sedimentIndex"}
       /\ \A s \in SceneSamples :
            DOMAIN evaluatePixel(s)
              = DeclaredIds(Val(request_UWQV).evalscript.setup)
       /\ RequestedIds(Val(request_UWQV))
            = DeclaredIds(Val(request_UWQV).evalscript.setup)
  /\ download_data # Unbound =>
       DOMAIN Val(download_data)
         = {TifKey(id) : id \in RequestedIds(Val(request_UWQV))}
  /\ exception # "KeyError"
  /\ ReadOfRequested(img, "default")
  /\ ReadOfRequested(chlorophyll_index, "chlorophyllIndex")
  /\ ReadOfRequested(sediment_index, "sedimentIndex")

\* C12 witness: the three rasters were read from the mapping and plotted.
C12_Witness ==
  /\ exception = "none"
  /\ img # Unbound
  /\ chlorophyll_index # Unbound
  /\ sediment_index # Unbound
  /\ Len(figures) = 3
  /\ DOMAIN Val(download_data)
       = {TifKey("default"), TifKey("chlorophyllIndex"),
          TifKey("sedimentIndex")}

=============================================================================
